---- MODULE Spec2Model ----
(***************************************************************************)
(* Server-side lifecycle of one incoming gRPC call, as implemented by the  *)
(* four call classes of userver/ugrpc/server/rpc.hpp: UnaryCall,           *)
(* InputStream, OutputStream and BidirectionalStream.                      *)
(*                                                                         *)
(* The handler is the environment: while the call object is alive it may   *)
(* invoke any public method in any order.  UnaryCall, InputStream and      *)
(* OutputStream are driven by one task, so each method is one action.      *)
(* BidirectionalStream allows Read concurrently with one of the write and  *)
(* finish methods, so each of its methods is split at its only suspension  *)
(* point, the raw-stream operation: a first action runs the code up to     *)
(* and including the issue of the operation, a _Resume action runs the     *)
(* code after the operation has completed or has been interrupted.         *)
(*                                                                         *)
(* BidirectionalStream calls the middleware hooks only when its message    *)
(* type is a protobuf message (if constexpr); is_protobuf_message is that  *)
(* compile-time fact.  The other three classes require protobuf messages.  *)
(*                                                                         *)
(* Everything the call does to its collaborators (access log, raw stream,  *)
(* statistics scope, tracing span, middleware hooks) is appended to one    *)
(* sequence, trace, in program order.                                      *)
(***************************************************************************)
EXTENDS Naturals, Sequences, FiniteSets, TLC

\* Number of method calls the handler makes on one call object.
MaxOps == 4

VARIABLES
    call_kind,        \* CallAnyBase::call_kind_
    is_protobuf_message,  \* std::is_base_of_v<google::protobuf::Message, Request / Response>
    uassert_enabled,  \* whether UASSERT is compiled in (debug build)
    is_finished,      \* UnaryCall::is_finished_, BidirectionalStream::is_finished_
    state,            \* InputStream::state_, OutputStream::state_
    are_reads_done,   \* BidirectionalStream::are_reads_done_
    trace,            \* effects on log, raw stream, statistics, span, hooks
    main,             \* the handler task: its latest method call and outcome
    rd,               \* the second task of a bidirectional call, calling Read
    lifecycle,        \* "running", "destroyed" (scope exit), "aborted" (fatal)
    calls,            \* the methods the handler has called so far, in order
    storage_context   \* CallParams::storage_context: the keys emplaced so far

vars == <<call_kind, is_protobuf_message, uassert_enabled, is_finished, state, are_reads_done,
          trace, main, rd, lifecycle, calls, storage_context>>

CallKind == {"kUnaryCall", "kRequestStream", "kResponseStream", "kBidirectionalStream"}

\* Messages the handler sends and the peer sends.
Msgs == {"m1", "m2"}

\* grpc::Status::OK and an application error code.
StatusOK == "OK"
Statuses == {"OK", "NOT_FOUND"}

\* impl::kUnknownErrorStatus
kUnknownErrorStatus == "UNKNOWN"

\* Outcome of a suspended raw-stream operation.
RawResults == {"ok", "interrupted"}
ReadResults == {"ok", "eof", "interrupted"}

\* Outcome of a middleware hook: the message passes (rewritten) or is rejected.
HookResults == {"ok", "reject"}

\* The message as rewritten by the middleware hooks.
Hooked(m) == IF m = "m1" THEN "m1_hooked" ELSE "m2_hooked"

Ev(sink, op, code, msg, res) ==
    [sink |-> sink, op |-> op, code |-> code, msg |-> msg, res |-> res]

NoMsg == "-"
NoCode == "-"

\* CallAnyBase::LogFinish: one access-log line with the status code.
LogFinish(t, status) == Append(t, Ev("log", "LogFinish", status, NoMsg, "ok"))

\* CallAnyBase::ApplyResponseHook / ApplyRequestHook on message m, outcome h.
ApplyResponseHook(t, m, h) == Append(t, Ev("hook", "ApplyResponseHook", NoCode, m, h))
ApplyRequestHook(t, m, h) == Append(t, Ev("hook", "ApplyRequestHook", NoCode, m, h))

\* One raw-stream operation of ugrpc::server::impl with its outcome.
RawOp(t, op, code, msg, res) == Append(t, Ev("raw", op, code, msg, res))

\* RpcStatisticsScope::OnExplicitFinish(code)
OnExplicitFinish(t, code) == Append(t, Ev("stats", "OnExplicitFinish", code, NoMsg, "ok"))

\* ugrpc::impl::UpdateSpanWithStatus(span, status)
UpdateSpanWithStatus(t, status) ==
    Append(t, Ev("span", "UpdateSpanWithStatus", status, NoMsg, "ok"))

\* The tail shared by every finish method once the raw-stream finish returned.
AccountFinish(t, code) == UpdateSpanWithStatus(OnExplicitFinish(t, code), code)

Task(op, code, msg, ret, at) ==
    [op |-> op, code |-> code, msg |-> msg, ret |-> ret, at |-> at]

Idle == Task("none", NoCode, NoMsg, "none", 0)

\* How a method returns given its hook outcome h and raw-stream outcome r:
\* the hook's failure, RpcInterruptedError, or normally.
Ret(h, r) ==
    IF h = "reject" THEN "rejected"
    ELSE IF r = "interrupted" THEN "interrupted"
    ELSE "ok"

\* The handler may start a method on the main task.
CanCall(kind) ==
    /\ call_kind = kind
    /\ lifecycle = "running"
    /\ main.ret # "pending"
    /\ Len(calls) < MaxOps

\* UINVARIANT failure (and UASSERT failure in a debug build): the process
\* aborts; nothing is unwound and no destructor runs.
Fatal(op, code, msg) ==
    /\ lifecycle' = "aborted"
    /\ main' = Task(op, code, msg, "abort", 0)
    /\ calls' = Append(calls, op)
    /\ UNCHANGED <<call_kind, is_protobuf_message, storage_context, uassert_enabled, is_finished, state, are_reads_done, trace, rd>>

\* ------------------------------------------------------------------------
\* UnaryCall

UnaryCall_IsFinished == is_finished

\* UnaryCall::Finish forwarding the response without ApplyResponseHook.
UnaryCall_Finish_NoHook ==
    /\ CanCall("kUnaryCall")
    /\ \E response \in Msgs, r \in RawResults :
        IF is_finished
        THEN Fatal("Finish", StatusOK, response)
        ELSE /\ is_finished' = TRUE
             /\ LET t2 == LogFinish(trace, StatusOK)
                    t3 == RawOp(t2, "Finish", StatusOK, response, r)
                IN  trace' = IF r = "interrupted" THEN t3
                             ELSE AccountFinish(t3, StatusOK)
             /\ main' = Task("Finish", StatusOK, response, Ret("ok", r), 0)
             /\ calls' = Append(calls, "Finish")
             /\ UNCHANGED <<call_kind, is_protobuf_message, storage_context, uassert_enabled, state, are_reads_done, rd, lifecycle>>

UnaryCall_Finish ==
    /\ CanCall("kUnaryCall")
    /\ \E response \in Msgs, h \in HookResults, r \in RawResults :
        IF is_finished
        THEN Fatal("Finish", StatusOK, response)
        ELSE /\ is_finished' = TRUE
             /\ LET t1 == ApplyResponseHook(trace, response, h)
                    t2 == LogFinish(t1, StatusOK)
                    t3 == RawOp(t2, "Finish", StatusOK, Hooked(response), r)
                IN  trace' = IF h = "reject" THEN t1
                             ELSE IF r = "interrupted" THEN t3
                             ELSE AccountFinish(t3, StatusOK)
             /\ main' = Task("Finish", StatusOK, response,
                             Ret(h, r), 0)
             /\ calls' = Append(calls, "Finish")
             /\ UNCHANGED <<call_kind, is_protobuf_message, storage_context, uassert_enabled, state, are_reads_done, rd, lifecycle>>

\* UnaryCall::FinishWithError without its early return on a finished call.
UnaryCall_FinishWithError_NoEarlyReturn ==
    /\ CanCall("kUnaryCall")
    /\ \E status \in Statuses, r \in RawResults :
        /\ is_finished' = TRUE
        /\ LET t1 == LogFinish(trace, status)
               t2 == RawOp(t1, "FinishWithError", status, NoMsg, r)
           IN  trace' = IF r = "interrupted" THEN t2 ELSE AccountFinish(t2, status)
        /\ main' = Task("FinishWithError", status, NoMsg, Ret("ok", r), 0)
        /\ calls' = Append(calls, "FinishWithError")
        /\ UNCHANGED <<call_kind, is_protobuf_message, storage_context, uassert_enabled, state, are_reads_done, rd, lifecycle>>

UnaryCall_FinishWithError ==
    /\ CanCall("kUnaryCall")
    /\ \E status \in Statuses, r \in RawResults :
        /\ IF UnaryCall_IsFinished
           THEN /\ main' = Task("FinishWithError", status, NoMsg, "ok", 0)
                /\ UNCHANGED <<is_finished, trace>>
           ELSE /\ is_finished' = TRUE
                /\ LET t1 == LogFinish(trace, status)
                       t2 == RawOp(t1, "FinishWithError", status, NoMsg, r)
                   IN  trace' = IF r = "interrupted" THEN t2 ELSE AccountFinish(t2, status)
                /\ main' = Task("FinishWithError", status, NoMsg,
                                Ret("ok", r), 0)
        /\ calls' = Append(calls, "FinishWithError")
        /\ UNCHANGED <<call_kind, is_protobuf_message, storage_context, uassert_enabled, state, are_reads_done, rd, lifecycle>>

\* ~UnaryCall
UnaryCall_Dtor ==
    /\ call_kind = "kUnaryCall"
    /\ lifecycle = "running"
    /\ trace' = IF ~is_finished
                THEN LogFinish(RawOp(trace, "CancelWithError", NoCode, NoMsg, "ok"),
                               kUnknownErrorStatus)
                ELSE trace
    /\ lifecycle' = "destroyed"
    /\ UNCHANGED <<call_kind, is_protobuf_message, storage_context, uassert_enabled, is_finished, state, are_reads_done, main, rd, calls>>

\* ------------------------------------------------------------------------
\* InputStream

\* InputStream::IsFinished answering true already on a half-closed input.
InputStream_IsFinished_HalfClosed == state # "kOpen"

InputStream_IsFinished == state = "kFinished"

\* InputStream::Read without its UINVARIANT on the state.
InputStream_Read_NoInvariant ==
    /\ CanCall("kRequestStream")
    /\ \E request \in Msgs, h \in HookResults, r \in ReadResults :
        /\ LET t1 == RawOp(trace, "Read", NoCode, IF r = "ok" THEN request ELSE NoMsg, r)
           IN  trace' = IF r = "ok" THEN ApplyRequestHook(t1, request, h) ELSE t1
        /\ state' = IF r = "eof" THEN "kReadsDone" ELSE state
        /\ main' = Task("Read", NoCode, IF r = "ok" /\ h = "ok" THEN Hooked(request) ELSE NoMsg,
                        CASE r = "interrupted" -> "interrupted"
                          [] r = "eof" -> "false"
                          [] r = "ok" /\ h = "reject" -> "rejected"
                          [] OTHER -> "true", 0)
        /\ calls' = Append(calls, "Read")
        /\ UNCHANGED <<call_kind, is_protobuf_message, storage_context, uassert_enabled, is_finished, are_reads_done, rd, lifecycle>>

\* InputStream::Read that does not record the end of input in state_.
InputStream_Read_StaysOpen ==
    /\ CanCall("kRequestStream")
    /\ \E request \in Msgs, h \in HookResults, r \in ReadResults :
        IF state # "kOpen"
        THEN Fatal("Read", NoCode, NoMsg)
        ELSE /\ LET t1 == RawOp(trace, "Read", NoCode, IF r = "ok" THEN request ELSE NoMsg, r)
                IN  trace' = IF r = "ok" THEN ApplyRequestHook(t1, request, h) ELSE t1
             /\ state' = state
             /\ main' = Task("Read", NoCode, IF r = "ok" /\ h = "ok" THEN Hooked(request) ELSE NoMsg,
                             CASE r = "interrupted" -> "interrupted"
                               [] r = "eof" -> "false"
                               [] r = "ok" /\ h = "reject" -> "rejected"
                               [] OTHER -> "true", 0)
             /\ calls' = Append(calls, "Read")
             /\ UNCHANGED <<call_kind, is_protobuf_message, storage_context, uassert_enabled, is_finished, are_reads_done, rd, lifecycle>>

InputStream_Read ==
    /\ CanCall("kRequestStream")
    /\ \E request \in Msgs, h \in HookResults, r \in ReadResults :
        IF state # "kOpen"
        THEN Fatal("Read", NoCode, NoMsg)
        ELSE /\ LET t1 == RawOp(trace, "Read", NoCode, IF r = "ok" THEN request ELSE NoMsg, r)
                IN  trace' = IF r = "ok" THEN ApplyRequestHook(t1, request, h) ELSE t1
             /\ state' = IF r = "eof" THEN "kReadsDone" ELSE state
             /\ main' = Task("Read", NoCode, IF r = "ok" /\ h = "ok" THEN Hooked(request) ELSE NoMsg,
                             CASE r = "interrupted" -> "interrupted"
                               [] r = "eof" -> "false"
                               [] r = "ok" /\ h = "reject" -> "rejected"
                               [] OTHER -> "true", 0)
             /\ calls' = Append(calls, "Read")
             /\ UNCHANGED <<call_kind, is_protobuf_message, storage_context, uassert_enabled, is_finished, are_reads_done, rd, lifecycle>>

\* InputStream::Finish that would accept only a drained input (kReadsDone).
InputStream_Finish_RequiresDrain ==
    /\ CanCall("kRequestStream")
    /\ \E response \in Msgs, h \in HookResults, r \in RawResults :
        IF state # "kReadsDone"
        THEN Fatal("Finish", StatusOK, response)
        ELSE /\ state' = "kFinished"
             /\ LET t1 == LogFinish(trace, StatusOK)
                    t2 == ApplyResponseHook(t1, response, h)
                    t3 == RawOp(t2, "Finish", StatusOK, Hooked(response), r)
                IN  trace' = IF h = "reject" THEN t2
                             ELSE IF r = "interrupted" THEN t3
                             ELSE AccountFinish(t3, StatusOK)
             /\ main' = Task("Finish", StatusOK, response,
                             Ret(h, r), 0)
             /\ calls' = Append(calls, "Finish")
             /\ UNCHANGED <<call_kind, is_protobuf_message, storage_context, uassert_enabled, is_finished, are_reads_done, rd, lifecycle>>

InputStream_Finish ==
    /\ CanCall("kRequestStream")
    /\ \E response \in Msgs, h \in HookResults, r \in RawResults :
        IF state = "kFinished"
        THEN Fatal("Finish", StatusOK, response)
        ELSE /\ state' = "kFinished"
             /\ LET t1 == LogFinish(trace, StatusOK)
                    t2 == ApplyResponseHook(t1, response, h)
                    t3 == RawOp(t2, "Finish", StatusOK, Hooked(response), r)
                IN  trace' = IF h = "reject" THEN t2
                             ELSE IF r = "interrupted" THEN t3
                             ELSE AccountFinish(t3, StatusOK)
             /\ main' = Task("Finish", StatusOK, response,
                             Ret(h, r), 0)
             /\ calls' = Append(calls, "Finish")
             /\ UNCHANGED <<call_kind, is_protobuf_message, storage_context, uassert_enabled, is_finished, are_reads_done, rd, lifecycle>>

InputStream_FinishWithError ==
    /\ CanCall("kRequestStream")
    /\ \E status \in Statuses, r \in RawResults :
        IF uassert_enabled /\ status = StatusOK
        THEN Fatal("FinishWithError", status, NoMsg)
        ELSE /\ IF InputStream_IsFinished
                THEN /\ main' = Task("FinishWithError", status, NoMsg, "ok", 0)
                     /\ UNCHANGED <<state, trace>>
                ELSE /\ state' = "kFinished"
                     /\ LET t1 == LogFinish(trace, status)
                            t2 == RawOp(t1, "FinishWithError", status, NoMsg, r)
                        IN  trace' = IF r = "interrupted" THEN t2 ELSE AccountFinish(t2, status)
                     /\ main' = Task("FinishWithError", status, NoMsg,
                                     Ret("ok", r), 0)
             /\ calls' = Append(calls, "FinishWithError")
             /\ UNCHANGED <<call_kind, is_protobuf_message, storage_context, uassert_enabled, is_finished, are_reads_done, rd, lifecycle>>

\* ~InputStream without its check of the state.
InputStream_Dtor_Unconditional ==
    /\ call_kind = "kRequestStream"
    /\ lifecycle = "running"
    /\ trace' = LogFinish(RawOp(trace, "CancelWithError", NoCode, NoMsg, "ok"),
                          kUnknownErrorStatus)
    /\ lifecycle' = "destroyed"
    /\ UNCHANGED <<call_kind, is_protobuf_message, storage_context, uassert_enabled, is_finished, state, are_reads_done, main, rd, calls>>

\* ~InputStream
InputStream_Dtor ==
    /\ call_kind = "kRequestStream"
    /\ lifecycle = "running"
    /\ trace' = IF state # "kFinished"
                THEN LogFinish(RawOp(trace, "CancelWithError", NoCode, NoMsg, "ok"),
                               kUnknownErrorStatus)
                ELSE trace
    /\ lifecycle' = "destroyed"
    /\ UNCHANGED <<call_kind, is_protobuf_message, storage_context, uassert_enabled, is_finished, state, are_reads_done, main, rd, calls>>

\* ------------------------------------------------------------------------
\* OutputStream

OutputStream_IsFinished == state = "kFinished"

\* impl::SendInitialMetadataIfNew(stream_, GetCallName(), state_): the state
\* it leaves, and the trace with the send (outcome r) when the state was kNew.
SendInitialMetadataIfNew_State(s) == IF s = "kNew" THEN "kOpen" ELSE s
SendInitialMetadataIfNew(t, s, r) ==
    IF s = "kNew" THEN RawOp(t, "SendInitialMetadata", NoCode, NoMsg, r) ELSE t

\* OutputStream::Write without the call of impl::SendInitialMetadataIfNew.
OutputStream_Write_NoMetadata ==
    /\ CanCall("kResponseStream")
    /\ \E response \in Msgs, h \in HookResults, r \in RawResults :
        IF state = "kFinished"
        THEN Fatal("Write", NoCode, response)
        ELSE LET t2 == ApplyResponseHook(trace, response, h)
                 t3 == RawOp(t2, "Write", NoCode, Hooked(response), r)
             IN  /\ state' = state
                 /\ trace' = IF h = "reject" THEN t2 ELSE t3
                 /\ main' = Task("Write", NoCode, response, Ret(h, r), 0)
                 /\ calls' = Append(calls, "Write")
                 /\ UNCHANGED <<call_kind, is_protobuf_message, storage_context, uassert_enabled, is_finished, are_reads_done, rd, lifecycle>>

\* OutputStream::Write sending the opening metadata on every call, whatever
\* the state.
OutputStream_Write_MetadataEachTime ==
    /\ CanCall("kResponseStream")
    /\ \E response \in Msgs, md \in RawResults, h \in HookResults, r \in RawResults :
        IF state = "kFinished"
        THEN Fatal("Write", NoCode, response)
        ELSE LET md_failed == md = "interrupted"
                 t1 == RawOp(trace, "SendInitialMetadata", NoCode, NoMsg, md)
                 t2 == ApplyResponseHook(t1, response, h)
                 t3 == RawOp(t2, "Write", NoCode, Hooked(response), r)
             IN  /\ state' = SendInitialMetadataIfNew_State(state)
                 /\ trace' = IF md_failed THEN t1
                             ELSE IF h = "reject" THEN t2
                             ELSE t3
                 /\ main' = Task("Write", NoCode, response,
                                 IF md_failed THEN "interrupted" ELSE Ret(h, r), 0)
                 /\ calls' = Append(calls, "Write")
                 /\ UNCHANGED <<call_kind, is_protobuf_message, storage_context, uassert_enabled, is_finished, are_reads_done, rd, lifecycle>>

OutputStream_Write ==
    /\ CanCall("kResponseStream")
    /\ \E response \in Msgs, md \in RawResults, h \in HookResults, r \in RawResults :
        IF state = "kFinished"
        THEN Fatal("Write", NoCode, response)
        ELSE LET md_failed == state = "kNew" /\ md = "interrupted"
                 t1 == SendInitialMetadataIfNew(trace, state, md)
                 t2 == ApplyResponseHook(t1, response, h)
                 t3 == RawOp(t2, "Write", NoCode, Hooked(response), r)
             IN  /\ state' = SendInitialMetadataIfNew_State(state)
                 /\ trace' = IF md_failed THEN t1
                             ELSE IF h = "reject" THEN t2
                             ELSE t3
                 /\ main' = Task("Write", NoCode, response,
                                 IF md_failed THEN "interrupted" ELSE Ret(h, r), 0)
                 /\ calls' = Append(calls, "Write")
                 /\ UNCHANGED <<call_kind, is_protobuf_message, storage_context, uassert_enabled, is_finished, are_reads_done, rd, lifecycle>>

\* OutputStream::Finish marking the call finished only after the raw-stream
\* finish has returned.
OutputStream_Finish_MarksAfter ==
    /\ CanCall("kResponseStream")
    /\ \E r \in RawResults :
        IF state = "kFinished"
        THEN Fatal("Finish", StatusOK, NoMsg)
        ELSE /\ state' = IF r = "interrupted" THEN state ELSE "kFinished"
             /\ LET t1 == LogFinish(trace, StatusOK)
                    t2 == RawOp(t1, "Finish", StatusOK, NoMsg, r)
                IN  trace' = IF r = "interrupted" THEN t2 ELSE AccountFinish(t2, StatusOK)
             /\ main' = Task("Finish", StatusOK, NoMsg,
                             Ret("ok", r), 0)
             /\ calls' = Append(calls, "Finish")
             /\ UNCHANGED <<call_kind, is_protobuf_message, storage_context, uassert_enabled, is_finished, are_reads_done, rd, lifecycle>>

OutputStream_Finish ==
    /\ CanCall("kResponseStream")
    /\ \E r \in RawResults :
        IF state = "kFinished"
        THEN Fatal("Finish", StatusOK, NoMsg)
        ELSE /\ state' = "kFinished"
             /\ LET t1 == LogFinish(trace, StatusOK)
                    t2 == RawOp(t1, "Finish", StatusOK, NoMsg, r)
                IN  trace' = IF r = "interrupted" THEN t2 ELSE AccountFinish(t2, StatusOK)
             /\ main' = Task("Finish", StatusOK, NoMsg,
                             Ret("ok", r), 0)
             /\ calls' = Append(calls, "Finish")
             /\ UNCHANGED <<call_kind, is_protobuf_message, storage_context, uassert_enabled, is_finished, are_reads_done, rd, lifecycle>>

\* OutputStream::FinishWithError recording the unknown error in statistics
\* and span instead of the status it was given.
OutputStream_FinishWithError_RecordsUnknown ==
    /\ CanCall("kResponseStream")
    /\ \E status \in Statuses, r \in RawResults :
        IF uassert_enabled /\ status = StatusOK
        THEN Fatal("FinishWithError", status, NoMsg)
        ELSE /\ IF OutputStream_IsFinished
                THEN /\ main' = Task("FinishWithError", status, NoMsg, "ok", 0)
                     /\ UNCHANGED <<state, trace>>
                ELSE /\ state' = "kFinished"
                     /\ LET t1 == LogFinish(trace, status)
                            t2 == RawOp(t1, "Finish", status, NoMsg, r)
                        IN  trace' = IF r = "interrupted" THEN t2
                                     ELSE AccountFinish(t2, kUnknownErrorStatus)
                     /\ main' = Task("FinishWithError", status, NoMsg,
                                     Ret("ok", r), 0)
             /\ calls' = Append(calls, "FinishWithError")
             /\ UNCHANGED <<call_kind, is_protobuf_message, storage_context, uassert_enabled, is_finished, are_reads_done, rd, lifecycle>>

OutputStream_FinishWithError ==
    /\ CanCall("kResponseStream")
    /\ \E status \in Statuses, r \in RawResults :
        IF uassert_enabled /\ status = StatusOK
        THEN Fatal("FinishWithError", status, NoMsg)
        ELSE /\ IF OutputStream_IsFinished
                THEN /\ main' = Task("FinishWithError", status, NoMsg, "ok", 0)
                     /\ UNCHANGED <<state, trace>>
                ELSE /\ state' = "kFinished"
                     /\ LET t1 == LogFinish(trace, status)
                            t2 == RawOp(t1, "Finish", status, NoMsg, r)
                        IN  trace' = IF r = "interrupted" THEN t2 ELSE AccountFinish(t2, status)
                     /\ main' = Task("FinishWithError", status, NoMsg,
                                     Ret("ok", r), 0)
             /\ calls' = Append(calls, "FinishWithError")
             /\ UNCHANGED <<call_kind, is_protobuf_message, storage_context, uassert_enabled, is_finished, are_reads_done, rd, lifecycle>>

\* OutputStream::WriteAndFinish without its UINVARIANT on the state.
OutputStream_WriteAndFinish_NoInvariant ==
    /\ CanCall("kResponseStream")
    /\ \E response \in Msgs, h \in HookResults, r \in RawResults :
        /\ state' = "kFinished"
        /\ LET t1 == LogFinish(trace, StatusOK)
               t2 == ApplyResponseHook(t1, response, h)
               t3 == RawOp(t2, "WriteAndFinish", StatusOK, Hooked(response), r)
           IN  trace' = IF h = "reject" THEN t2
                        ELSE IF r = "interrupted" THEN t3
                        ELSE AccountFinish(t3, StatusOK)
        /\ main' = Task("WriteAndFinish", StatusOK, response, Ret(h, r), 0)
        /\ calls' = Append(calls, "WriteAndFinish")
        /\ UNCHANGED <<call_kind, is_protobuf_message, storage_context, uassert_enabled, is_finished, are_reads_done, rd, lifecycle>>

\* OutputStream::WriteAndFinish issuing the write and the finish as two
\* raw-stream operations.
OutputStream_WriteAndFinish_TwoOperations ==
    /\ CanCall("kResponseStream")
    /\ \E response \in Msgs, h \in HookResults, r \in RawResults :
        IF state = "kFinished"
        THEN Fatal("WriteAndFinish", StatusOK, response)
        ELSE /\ state' = "kFinished"
             /\ LET t1 == LogFinish(trace, StatusOK)
                    t2 == ApplyResponseHook(t1, response, h)
                    t3 == RawOp(t2, "Write", NoCode, Hooked(response), r)
                    t4 == RawOp(t3, "Finish", StatusOK, NoMsg, r)
                IN  trace' = IF h = "reject" THEN t2
                             ELSE IF r = "interrupted" THEN t3
                             ELSE AccountFinish(t4, StatusOK)
             /\ main' = Task("WriteAndFinish", StatusOK, response,
                             Ret(h, r), 0)
             /\ calls' = Append(calls, "WriteAndFinish")
             /\ UNCHANGED <<call_kind, is_protobuf_message, storage_context, uassert_enabled, is_finished, are_reads_done, rd, lifecycle>>

OutputStream_WriteAndFinish ==
    /\ CanCall("kResponseStream")
    /\ \E response \in Msgs, h \in HookResults, r \in RawResults :
        IF state = "kFinished"
        THEN Fatal("WriteAndFinish", StatusOK, response)
        ELSE /\ state' = "kFinished"
             /\ LET t1 == LogFinish(trace, StatusOK)
                    t2 == ApplyResponseHook(t1, response, h)
                    t3 == RawOp(t2, "WriteAndFinish", StatusOK, Hooked(response), r)
                IN  trace' = IF h = "reject" THEN t2
                             ELSE IF r = "interrupted" THEN t3
                             ELSE AccountFinish(t3, StatusOK)
             /\ main' = Task("WriteAndFinish", StatusOK, response,
                             Ret(h, r), 0)
             /\ calls' = Append(calls, "WriteAndFinish")
             /\ UNCHANGED <<call_kind, is_protobuf_message, storage_context, uassert_enabled, is_finished, are_reads_done, rd, lifecycle>>

\* ~OutputStream cancelling whatever the state.
OutputStream_Dtor_Unconditional ==
    /\ call_kind = "kResponseStream"
    /\ lifecycle = "running"
    /\ trace' = LogFinish(RawOp(trace, "Cancel", NoCode, NoMsg, "ok"), kUnknownErrorStatus)
    /\ lifecycle' = "destroyed"
    /\ UNCHANGED <<call_kind, is_protobuf_message, storage_context, uassert_enabled, is_finished, state, are_reads_done, main, rd, calls>>

\* ~OutputStream
OutputStream_Dtor ==
    /\ call_kind = "kResponseStream"
    /\ lifecycle = "running"
    /\ trace' = IF state # "kFinished"
                THEN LogFinish(RawOp(trace, "Cancel", NoCode, NoMsg, "ok"),
                               kUnknownErrorStatus)
                ELSE trace
    /\ lifecycle' = "destroyed"
    /\ UNCHANGED <<call_kind, is_protobuf_message, storage_context, uassert_enabled, is_finished, state, are_reads_done, main, rd, calls>>

\* ------------------------------------------------------------------------
\* BidirectionalStream.  Read runs on task rd, the write and finish methods
\* on task main.  A method suspended in its raw-stream operation has
\* ret = "pending" and at = the place of the operation in trace.

BidirectionalStream_IsFinished == is_finished

\* The hook calls of BidirectionalStream are compiled in only when the message
\* type derives from google::protobuf::Message (if constexpr): the trace after
\* the hook call, the outcome that counts, and the message that goes on.
IfProtobuf_ApplyRequestHook(t, m, h) ==
    IF is_protobuf_message THEN ApplyRequestHook(t, m, h) ELSE t
IfProtobuf_ApplyResponseHook(t, m, h) ==
    IF is_protobuf_message THEN ApplyResponseHook(t, m, h) ELSE t
HookOutcome(h) == IF is_protobuf_message THEN h ELSE "ok"
Forwarded(m) == IF is_protobuf_message THEN Hooked(m) ELSE m

\* The handler may start Read on the reading task.
CanRead ==
    /\ call_kind = "kBidirectionalStream"
    /\ lifecycle = "running"
    /\ rd.ret # "pending"
    /\ Len(calls) < MaxOps

\* UINVARIANT failure in the reading task.
FatalRead ==
    /\ lifecycle' = "aborted"
    /\ rd' = Task("Read", NoCode, NoMsg, "abort", 0)
    /\ calls' = Append(calls, "Read")
    /\ UNCHANGED <<call_kind, is_protobuf_message, storage_context, uassert_enabled, is_finished, state, are_reads_done, trace, main>>

\* The suspended operation at place i of t has completed with outcome r.
Completed(t, i, r) == [t EXCEPT ![i].res = r]

\* The main task is resumed from the raw-stream operation of method op.
Resumes(op) ==
    /\ call_kind = "kBidirectionalStream"
    /\ lifecycle = "running"
    /\ main.op = op
    /\ main.ret = "pending"

BidirectionalStream_Read ==
    /\ CanRead
    /\ IF are_reads_done
       THEN FatalRead
       ELSE /\ trace' = RawOp(trace, "Read", NoCode, NoMsg, "pending")
            /\ rd' = Task("Read", NoCode, NoMsg, "pending", Len(trace) + 1)
            /\ calls' = Append(calls, "Read")
            /\ UNCHANGED <<call_kind, is_protobuf_message, storage_context, uassert_enabled, is_finished, state, are_reads_done,
                           main, lifecycle>>

\* BidirectionalStream::Read marking the call finished as well when the
\* raw-stream read is interrupted.
BidirectionalStream_Read_Resume_Finishes ==
    /\ call_kind = "kBidirectionalStream"
    /\ lifecycle = "running"
    /\ rd.ret = "pending"
    /\ \E request \in Msgs, h \in HookResults, r \in ReadResults :
        /\ LET t1 == [Completed(trace, rd.at, r) EXCEPT
                         ![rd.at].msg = IF r = "ok" THEN request ELSE NoMsg]
           IN  trace' = IF r = "ok" THEN IfProtobuf_ApplyRequestHook(t1, request, h) ELSE t1
        /\ are_reads_done' = IF r \in {"eof", "interrupted"} THEN TRUE ELSE are_reads_done
        /\ is_finished' = IF r = "interrupted" THEN TRUE ELSE is_finished
        /\ rd' = Task("Read", NoCode,
                      IF r = "ok" /\ HookOutcome(h) = "ok" THEN Forwarded(request) ELSE NoMsg,
                      CASE r = "interrupted" -> "interrupted"
                        [] r = "eof" -> "false"
                        [] r = "ok" /\ HookOutcome(h) = "reject" -> "rejected"
                        [] OTHER -> "true", 0)
        /\ UNCHANGED <<call_kind, is_protobuf_message, storage_context, uassert_enabled, state, main, lifecycle, calls>>

BidirectionalStream_Read_Resume ==
    /\ call_kind = "kBidirectionalStream"
    /\ lifecycle = "running"
    /\ rd.ret = "pending"
    /\ \E request \in Msgs, h \in HookResults, r \in ReadResults :
        /\ LET t1 == [Completed(trace, rd.at, r) EXCEPT
                         ![rd.at].msg = IF r = "ok" THEN request ELSE NoMsg]
           IN  trace' = IF r = "ok" THEN IfProtobuf_ApplyRequestHook(t1, request, h) ELSE t1
        /\ are_reads_done' = IF r = "eof" THEN TRUE ELSE are_reads_done
        /\ rd' = Task("Read", NoCode,
                      IF r = "ok" /\ HookOutcome(h) = "ok" THEN Forwarded(request) ELSE NoMsg,
                      CASE r = "interrupted" -> "interrupted"
                        [] r = "eof" -> "false"
                        [] r = "ok" /\ HookOutcome(h) = "reject" -> "rejected"
                        [] OTHER -> "true", 0)
        /\ UNCHANGED <<call_kind, is_protobuf_message, storage_context, uassert_enabled, is_finished, state, main, lifecycle, calls>>

\* BidirectionalStream::Write without its UINVARIANT on is_finished_.
BidirectionalStream_Write_NoInvariant ==
    /\ CanCall("kBidirectionalStream")
    /\ \E response \in Msgs, h \in HookResults :
        /\ LET t1 == IfProtobuf_ApplyResponseHook(trace, response, h)
               t2 == RawOp(t1, "Write", NoCode, Forwarded(response), "pending")
           IN  /\ trace' = IF HookOutcome(h) = "reject" THEN t1 ELSE t2
               /\ main' = IF HookOutcome(h) = "reject"
                          THEN Task("Write", NoCode, response, "rejected", 0)
                          ELSE Task("Write", NoCode, response, "pending", Len(t2))
        /\ calls' = Append(calls, "Write")
        /\ UNCHANGED <<call_kind, is_protobuf_message, storage_context, uassert_enabled, is_finished, state, are_reads_done,
                       rd, lifecycle>>

BidirectionalStream_Write ==
    /\ CanCall("kBidirectionalStream")
    /\ \E response \in Msgs, h \in HookResults :
        IF is_finished
        THEN Fatal("Write", NoCode, response)
        ELSE /\ LET t1 == IfProtobuf_ApplyResponseHook(trace, response, h)
                    t2 == RawOp(t1, "Write", NoCode, Forwarded(response), "pending")
                IN  /\ trace' = IF HookOutcome(h) = "reject" THEN t1 ELSE t2
                    /\ main' = IF HookOutcome(h) = "reject"
                               THEN Task("Write", NoCode, response, "rejected", 0)
                               ELSE Task("Write", NoCode, response, "pending", Len(t2))
             /\ calls' = Append(calls, "Write")
             /\ UNCHANGED <<call_kind, is_protobuf_message, storage_context, uassert_enabled, is_finished, state, are_reads_done,
                            rd, lifecycle>>

\* BidirectionalStream::Write whose raw-stream operation could complete only
\* while no Read is suspended, as under a lock shared by the two tasks.
BidirectionalStream_Write_Resume_Locked ==
    /\ Resumes("Write")
    /\ rd.ret # "pending"
    /\ \E r \in RawResults :
        /\ trace' = Completed(trace, main.at, r)
        /\ is_finished' = IF r = "interrupted" THEN TRUE ELSE is_finished
        /\ main' = [main EXCEPT !.ret = Ret("ok", r), !.at = 0]
        /\ UNCHANGED <<call_kind, is_protobuf_message, storage_context, uassert_enabled, state, are_reads_done, rd, lifecycle, calls>>

\* BidirectionalStream::Write without the catch of RpcInterruptedError that
\* sets is_finished_.
BidirectionalStream_Write_Resume_NoCatch ==
    /\ Resumes("Write")
    /\ \E r \in RawResults :
        /\ trace' = Completed(trace, main.at, r)
        /\ is_finished' = is_finished
        /\ main' = [main EXCEPT !.ret = Ret("ok", r), !.at = 0]
        /\ UNCHANGED <<call_kind, is_protobuf_message, storage_context, uassert_enabled, state, are_reads_done, rd, lifecycle, calls>>

BidirectionalStream_Write_Resume ==
    /\ Resumes("Write")
    /\ \E r \in RawResults :
        /\ trace' = Completed(trace, main.at, r)
        /\ is_finished' = IF r = "interrupted" THEN TRUE ELSE is_finished
        /\ main' = [main EXCEPT !.ret = Ret("ok", r), !.at = 0]
        /\ UNCHANGED <<call_kind, is_protobuf_message, storage_context, uassert_enabled, state, are_reads_done, rd, lifecycle, calls>>

BidirectionalStream_Finish ==
    /\ CanCall("kBidirectionalStream")
    /\ IF is_finished
       THEN Fatal("Finish", StatusOK, NoMsg)
       ELSE /\ is_finished' = TRUE
            /\ LET t1 == LogFinish(trace, StatusOK)
                   t2 == RawOp(t1, "Finish", StatusOK, NoMsg, "pending")
               IN  /\ trace' = t2
                   /\ main' = Task("Finish", StatusOK, NoMsg, "pending", Len(t2))
            /\ calls' = Append(calls, "Finish")
            /\ UNCHANGED <<call_kind, is_protobuf_message, storage_context, uassert_enabled, state, are_reads_done, rd, lifecycle>>

\* The code after the raw-stream operation of a finish method recording the
\* status in the statistics and on the span whether or not the raw-stream
\* operation failed.
ResumeFinish_AccountsOnFailure(op) ==
    /\ Resumes(op)
    /\ \E r \in RawResults :
        /\ trace' = AccountFinish(Completed(trace, main.at, r), main.code)
        /\ main' = [main EXCEPT !.ret = Ret("ok", r), !.at = 0]
        /\ UNCHANGED <<call_kind, is_protobuf_message, storage_context, uassert_enabled, is_finished, state, are_reads_done,
                       rd, lifecycle, calls>>

\* The code after the raw-stream operation of Finish, FinishWithError and
\* WriteAndFinish: statistics and span on success, the exception otherwise.
ResumeFinish(op) ==
    /\ Resumes(op)
    /\ \E r \in RawResults :
        /\ LET t1 == Completed(trace, main.at, r)
           IN  trace' = IF r = "interrupted" THEN t1 ELSE AccountFinish(t1, main.code)
        /\ main' = [main EXCEPT !.ret = Ret("ok", r), !.at = 0]
        /\ UNCHANGED <<call_kind, is_protobuf_message, storage_context, uassert_enabled, is_finished, state, are_reads_done,
                       rd, lifecycle, calls>>

BidirectionalStream_Finish_Resume == ResumeFinish("Finish")

BidirectionalStream_FinishWithError ==
    /\ CanCall("kBidirectionalStream")
    /\ \E status \in Statuses :
        IF uassert_enabled /\ status = StatusOK
        THEN Fatal("FinishWithError", status, NoMsg)
        ELSE /\ IF BidirectionalStream_IsFinished
                THEN /\ main' = Task("FinishWithError", status, NoMsg, "ok", 0)
                     /\ UNCHANGED <<is_finished, trace>>
                ELSE /\ is_finished' = TRUE
                     /\ LET t1 == LogFinish(trace, status)
                            t2 == RawOp(t1, "Finish", status, NoMsg, "pending")
                        IN  /\ trace' = t2
                            /\ main' = Task("FinishWithError", status, NoMsg, "pending", Len(t2))
             /\ calls' = Append(calls, "FinishWithError")
             /\ UNCHANGED <<call_kind, is_protobuf_message, storage_context, uassert_enabled, state, are_reads_done, rd, lifecycle>>

BidirectionalStream_FinishWithError_Resume == ResumeFinish("FinishWithError")

\* BidirectionalStream::WriteAndFinish issuing the raw-stream operation with
\* the response as passed, before the response hook has seen it.
BidirectionalStream_WriteAndFinish_HookAfter ==
    /\ CanCall("kBidirectionalStream")
    /\ \E response \in Msgs, h \in HookResults :
        IF is_finished
        THEN Fatal("WriteAndFinish", StatusOK, response)
        ELSE /\ is_finished' = TRUE
             /\ LET t1 == LogFinish(trace, StatusOK)
                    t2 == RawOp(t1, "WriteAndFinish", StatusOK, response, "pending")
                    t3 == IfProtobuf_ApplyResponseHook(t2, response, h)
                IN  /\ trace' = t3
                    /\ main' = Task("WriteAndFinish", StatusOK, response, "pending", Len(t2))
             /\ calls' = Append(calls, "WriteAndFinish")
             /\ UNCHANGED <<call_kind, is_protobuf_message, storage_context, uassert_enabled, state, are_reads_done, rd, lifecycle>>

BidirectionalStream_WriteAndFinish ==
    /\ CanCall("kBidirectionalStream")
    /\ \E response \in Msgs, h \in HookResults :
        IF is_finished
        THEN Fatal("WriteAndFinish", StatusOK, response)
        ELSE /\ is_finished' = TRUE
             /\ LET t1 == LogFinish(trace, StatusOK)
                    t2 == IfProtobuf_ApplyResponseHook(t1, response, h)
                    t3 == RawOp(t2, "WriteAndFinish", StatusOK, Forwarded(response), "pending")
                IN  /\ trace' = IF HookOutcome(h) = "reject" THEN t2 ELSE t3
                    /\ main' = IF HookOutcome(h) = "reject"
                               THEN Task("WriteAndFinish", StatusOK, response, "rejected", 0)
                               ELSE Task("WriteAndFinish", StatusOK, response, "pending", Len(t3))
             /\ calls' = Append(calls, "WriteAndFinish")
             /\ UNCHANGED <<call_kind, is_protobuf_message, storage_context, uassert_enabled, state, are_reads_done, rd, lifecycle>>

BidirectionalStream_WriteAndFinish_Resume == ResumeFinish("WriteAndFinish")

\* ~BidirectionalStream: runs when the handler scope exits, both tasks done.
BidirectionalStream_Dtor ==
    /\ call_kind = "kBidirectionalStream"
    /\ lifecycle = "running"
    /\ main.ret # "pending"
    /\ rd.ret # "pending"
    /\ trace' = IF ~is_finished
                THEN LogFinish(RawOp(trace, "Cancel", NoCode, NoMsg, "ok"),
                               kUnknownErrorStatus)
                ELSE trace
    /\ lifecycle' = "destroyed"
    /\ UNCHANGED <<call_kind, is_protobuf_message, storage_context, uassert_enabled, is_finished, state, are_reads_done, main, rd, calls>>

\* ------------------------------------------------------------------------

Init ==
    /\ call_kind \in CallKind
    /\ is_protobuf_message \in IF call_kind = "kBidirectionalStream" THEN BOOLEAN ELSE {TRUE}
    /\ uassert_enabled \in BOOLEAN
    /\ is_finished = FALSE
    /\ state = CASE call_kind = "kRequestStream" -> "kOpen"
                 [] call_kind = "kResponseStream" -> "kNew"
                 [] OTHER -> "none"
    /\ are_reads_done = FALSE
    /\ trace = <<>>
    /\ main = Idle
    /\ rd = Idle
    /\ lifecycle = "running"
    /\ calls = <<>>
    /\ storage_context = {}

Next ==
    \/ UnaryCall_Finish
    \/ UnaryCall_FinishWithError
    \/ UnaryCall_Dtor
    \/ InputStream_Read
    \/ InputStream_Finish
    \/ InputStream_FinishWithError
    \/ InputStream_Dtor
    \/ OutputStream_Write
    \/ OutputStream_Finish
    \/ OutputStream_FinishWithError
    \/ OutputStream_WriteAndFinish
    \/ OutputStream_Dtor
    \/ BidirectionalStream_Read
    \/ BidirectionalStream_Read_Resume
    \/ BidirectionalStream_Write
    \/ BidirectionalStream_Write_Resume
    \/ BidirectionalStream_Finish
    \/ BidirectionalStream_Finish_Resume
    \/ BidirectionalStream_FinishWithError
    \/ BidirectionalStream_FinishWithError_Resume
    \/ BidirectionalStream_WriteAndFinish
    \/ BidirectionalStream_WriteAndFinish_Resume
    \/ BidirectionalStream_Dtor

Spec == Init /\ [][Next]_vars

\* ------------------------------------------------------------------------
\* Observations on a state

\* CallAnyBase::IsFinished, dispatched on the class of the call.
IsFinished ==
    CASE call_kind = "kUnaryCall" -> UnaryCall_IsFinished
      [] call_kind = "kRequestStream" -> InputStream_IsFinished
      [] call_kind = "kResponseStream" -> OutputStream_IsFinished
      [] OTHER -> BidirectionalStream_IsFinished

\* ------------------------------------------------------------------------
\* The queries of CallAnyBase.  The handler task may call them whenever it is
\* not suspended in a raw-stream operation and the call object is alive; the
\* query and what it returned become the task's latest call.

\* The non-virtual accessors and the field of the call each one returns.
Accessors == {"GetContext", "GetCallName", "GetSpan", "GetCallKind", "GetStorageContext"}
Returned(op) ==
    CASE op = "GetContext" -> "params_.context"
      [] op = "GetCallName" -> "params_.call_name"
      [] op = "GetSpan" -> "params_.call_span"
      [] op = "GetCallKind" -> call_kind
      [] OTHER -> "params_.storage_context"

Queries(op, ret) ==
    /\ lifecycle = "running"
    /\ main.ret # "pending"
    /\ main' = Task(op, NoCode, NoMsg, ret, 0)
    /\ UNCHANGED <<call_kind, is_protobuf_message, storage_context, uassert_enabled,
                   is_finished, state, are_reads_done, trace, rd, lifecycle, calls>>

CallAnyBase_IsFinished == Queries("IsFinished", IF IsFinished THEN "true" ELSE "false")

CallAnyBase_Accessor == \E op \in Accessors : Queries(op, Returned(op))

\* Keys of the per-call storage context.
StorageKeys == {"kAuthUsername"}

\* GetStorageContext().Emplace(key, value): the accessor hands out a mutable
\* reference in whatever phase the call is.
StorageContext_Emplace ==
    /\ lifecycle = "running"
    /\ main.ret # "pending" \/ (call_kind = "kBidirectionalStream" /\ rd.ret # "pending")
    /\ \E key \in StorageKeys \ storage_context :
        storage_context' = storage_context \cup {key}
    /\ UNCHANGED <<call_kind, is_protobuf_message, uassert_enabled, is_finished, state,
                   are_reads_done, trace, main, rd, lifecycle, calls>>

\* Number of method calls the handler makes on a call that it also queries.
MaxQueriedOps == 3

\* The call with the handler also using the queries.
NextWithQueries ==
    \/ Next /\ Len(calls') <= MaxQueriedOps
    \/ CallAnyBase_IsFinished
    \/ CallAnyBase_Accessor

SpecQueries == Init /\ [][NextWithQueries]_vars

\* The call with the handler also filling the storage context.
NextWithStorage ==
    \/ Next
    \/ StorageContext_Emplace

SpecStorage == Init /\ [][NextWithStorage]_vars

\* The call is in its terminal phase, read off the fields themselves.
Terminal == is_finished \/ state = "kFinished"

Phase == <<is_finished, state, are_reads_done>>

OnSink(sink) == SelectSeq(trace, LAMBDA e : e.sink = sink)
LogLines == OnSink("log")
StatsEvents == OnSink("stats")
SpanUpdates == OnSink("span")

FinishFamily == {"Finish", "FinishWithError", "WriteAndFinish"}
CancelOps == {"Cancel", "CancelWithError"}

\* Raw-stream operations that end the call, and cancellations among them.
RawOps(ops) == SelectSeq(trace, LAMBDA e : e.sink = "raw" /\ e.op \in ops)

\* A Read or a Write of the raw stream failed with a transport interruption.
TransferInterrupted ==
    \E i \in DOMAIN trace :
        /\ trace[i].sink = "raw"
        /\ trace[i].op \in {"Read", "Write"}
        /\ trace[i].res = "interrupted"

\* The handler never called a method of the finish family.
NeverFinished == \A i \in DOMAIN calls : calls[i] \notin FinishFamily

\* The destructor's effect on an unfinished call: one cancellation, then the
\* log line with the unknown-error status.
EndsCancelled(t) ==
    /\ Len(t) >= 2
    /\ t[Len(t) - 1].sink = "raw"
    /\ t[Len(t) - 1].op \in CancelOps
    /\ t[Len(t)] = Ev("log", "LogFinish", kUnknownErrorStatus, NoMsg, "ok")

\* This step is the handler calling method op on the main task.
MainCalls(op) ==
    /\ Len(calls') = Len(calls) + 1
    /\ calls'[Len(calls')] = op
    /\ rd' = rd

\* This step is the handler scope exiting (the destructor running).
ScopeExit == lifecycle = "running" /\ lifecycle' = "destroyed"

\* ------------------------------------------------------------------------
\* Claims

\* C1: once the handler scope has exited, exactly one terminal log line has
\* been emitted for the call, whatever the shape and however it ended.
C1_ExactlyOneLogLine == lifecycle = "destroyed" => Len(LogLines) = 1

\* C2: once the handler scope has exited, exactly one terminal status has
\* reached the statistics scope and exactly one the span; when no explicit
\* finish recorded one, that status is the unknown error.
C2_ExactlyOneStatsAndSpan ==
    lifecycle = "destroyed" =>
        /\ Len(StatsEvents) = 1
        /\ Len(SpanUpdates) = 1
        /\ NeverFinished =>
              /\ StatsEvents[1].code = kUnknownErrorStatus
              /\ SpanUpdates[1].code = kUnknownErrorStatus

\* C3: FinishWithError called on a call in its terminal phase changes no
\* field of the call and adds nothing to the raw stream, the log, the
\* statistics or the span; with a non-success status it returns normally.
C3_FinishWithErrorIdempotent ==
    [][(Terminal /\ MainCalls("FinishWithError")) =>
           /\ trace' = trace
           /\ Phase' = Phase
           /\ main'.code # StatusOK => (lifecycle' = "running" /\ main'.ret = "ok")]_vars

\* C3 witness: after the call ended with status OK, FinishWithError(NOT_FOUND)
\* returned and the log still holds the first outcome alone.
C3_Witness ==
    /\ main.op = "FinishWithError"
    /\ main.code = "NOT_FOUND"
    /\ main.ret = "ok"
    /\ Len(LogLines) = 1
    /\ LogLines[1].code = StatusOK
    /\ Len(StatsEvents) = 1

\* C4: Finish or WriteAndFinish called on a call not in its terminal phase
\* leaves it terminal with IsFinished() true; called on a terminal call it
\* takes the fatal path and adds no log line, statistics event, span update
\* or raw-stream operation.
C4_FinishOnceThenFatal ==
    [][(MainCalls("Finish") \/ MainCalls("WriteAndFinish")) =>
           IF Terminal
           THEN /\ lifecycle' = "aborted"
                /\ trace' = trace
                /\ Phase' = Phase
           ELSE /\ Terminal'
                /\ IsFinished'
                /\ lifecycle' = "running"]_vars

\* C4 witness: a second finish aborted after a first finish had succeeded.
C4_Witness ==
    /\ lifecycle = "aborted"
    /\ main.op \in {"Finish", "WriteAndFinish"}
    /\ main.ret = "abort"
    /\ Len(calls) >= 2
    /\ Len(LogLines) = 1
    /\ LogLines[1].code = StatusOK
    /\ Len(StatsEvents) = 1
    /\ Len(RawOps(FinishFamily)) = 1

\* C5: scope exit of a call not in its terminal phase issues exactly one
\* cancellation to the raw stream followed by exactly one log line with the
\* unknown-error status; scope exit of a terminal call adds nothing.
C5_ScopeExit ==
    [][ScopeExit =>
           IF Terminal
           THEN trace' = trace
           ELSE /\ Len(trace') = Len(trace) + 2
                /\ SubSeq(trace', 1, Len(trace)) = trace
                /\ EndsCancelled(trace')
                /\ Len(RawOps(CancelOps)) = 0]_vars

\* C5 witness: a handler that read or wrote and then left the scope without
\* finishing; the call was cancelled and logged with the unknown error.
C5_Witness ==
    /\ lifecycle = "destroyed"
    /\ Len(calls) >= 1
    /\ NeverFinished
    /\ EndsCancelled(trace)

\* C6: a call whose handler scope has exited has at least one terminal
\* accounting event (a log line, a statistics event or a span update).
C6_NoSilentCall ==
    lifecycle = "destroyed" =>
        Len(LogLines) + Len(StatsEvents) + Len(SpanUpdates) >= 1

\* C7: when a Read or Write failed with a transport interruption and the
\* handler called no finish method, scope exit cancelled the raw stream and
\* logged the unknown-error status.
C7_InterruptedThenScopeExit ==
    (lifecycle = "destroyed" /\ TransferInterrupted /\ NeverFinished) =>
        EndsCancelled(trace)

\* C8: when a Read or Write failed with a transport interruption and the
\* handler then called FinishWithError(status), its only finish call, with a
\* non-success status, and that call returned normally, the status is the
\* call's single outcome in the log, the statistics and the span.
C8_ErrorFinishAfterInterruption ==
    (/\ TransferInterrupted
     /\ main.op = "FinishWithError"
     /\ main.ret = "ok"
     /\ main.code # StatusOK
     /\ \A i \in 1..(Len(calls) - 1) : calls[i] \notin FinishFamily
     /\ calls[Len(calls)] = "FinishWithError") =>
        /\ Len(LogLines) = 1 /\ LogLines[1].code = main.code
        /\ Len(StatsEvents) = 1 /\ StatsEvents[1].code = main.code
        /\ Len(SpanUpdates) = 1 /\ SpanUpdates[1].code = main.code

\* C9: in a bidirectional call, after Read failed with a transport
\* interruption both are_reads_done_ and is_finished_ are set.
C9_ReadInterruptionFinishes ==
    (call_kind = "kBidirectionalStream" /\ rd.op = "Read" /\ rd.ret = "interrupted") =>
        (are_reads_done /\ is_finished)

\* This step applies a hook that rejects the message.
HookRejects(hook) ==
    /\ Len(trace') = Len(trace) + 1 \/ Len(trace') = Len(trace) + 2
    /\ \E i \in (Len(trace) + 1)..Len(trace') :
          trace'[i].sink = "hook" /\ trace'[i].op = hook /\ trace'[i].res = "reject"

\* C10: a response rejected by the hook is never written to the raw stream
\* (the rejection is the last effect of the method, which fails), a rejected
\* request never makes Read return true, and a call whose Finish or
\* WriteAndFinish was rejected by the hook has exactly one log line once the
\* handler scope has exited.
C10_HookRejection ==
    [][/\ HookRejects("ApplyResponseHook") =>
             /\ trace'[Len(trace')].sink = "hook"
             /\ main'.ret = "rejected"
       /\ HookRejects("ApplyRequestHook") =>
             /\ trace'[Len(trace')].sink = "hook"
             /\ IF call_kind = "kBidirectionalStream"
                THEN rd'.ret = "rejected"
                ELSE main'.ret = "rejected"
       /\ (ScopeExit /\ main.op \in {"Finish", "WriteAndFinish"} /\ main.ret = "rejected") =>
             Len(LogLines') = 1]_vars

\* The place of a value of state_ in the order of its enum (State::kOpen,
\* kReadsDone, kFinished of InputStream; kNew, kOpen, kFinished of OutputStream).
Rank(s) ==
    CASE s = "kNew" -> 0
      [] s = "kOpen" -> 1
      [] s = "kReadsDone" -> 2
      [] s = "kFinished" -> 3
      [] OTHER -> 0

\* C11: in every step the phase stays or moves forward: is_finished_ and
\* are_reads_done_ never go from true to false, state_ never moves to an
\* earlier value, and IsFinished() once true stays true.
C11_PhaseForward ==
    [][/\ is_finished => is_finished'
       /\ are_reads_done => are_reads_done'
       /\ Rank(state) <= Rank(state')
       /\ IsFinished => IsFinished']_vars

\* C11 witness: a client-streaming call that went kOpen, kReadsDone, kFinished
\* and was then called again.
C11_Witness ==
    /\ call_kind = "kRequestStream"
    /\ state = "kFinished"
    /\ \E i \in DOMAIN trace : trace[i].op = "Read" /\ trace[i].res = "eof"
    /\ Len(calls) >= 3
    /\ calls[Len(calls)] = "FinishWithError"

\* The main task can take the step that completes the method it is suspended in.
MainCanComplete ==
    \/ main.op = "Write" /\ ENABLED BidirectionalStream_Write_Resume
    \/ main.op = "Finish" /\ ENABLED BidirectionalStream_Finish_Resume
    \/ main.op = "FinishWithError" /\ ENABLED BidirectionalStream_FinishWithError_Resume
    \/ main.op = "WriteAndFinish" /\ ENABLED BidirectionalStream_WriteAndFinish_Resume

\* The main task can start each method of the write and finish family.
MainCanStart ==
    /\ ENABLED BidirectionalStream_Write
    /\ ENABLED BidirectionalStream_Finish
    /\ ENABLED BidirectionalStream_FinishWithError
    /\ ENABLED BidirectionalStream_WriteAndFinish

\* C12: in a bidirectional call, while the reading task is suspended in its
\* raw-stream Read the main task can start any write or finish method and can
\* complete the one it is suspended in; while the main task is suspended the
\* reading task can start a Read and can complete the one it is suspended in.
C12_NeitherBlocks ==
    (call_kind = "kBidirectionalStream" /\ lifecycle = "running") =>
        /\ (rd.ret = "pending" /\ main.ret = "pending") =>
               (MainCanComplete /\ ENABLED BidirectionalStream_Read_Resume)
        /\ (rd.ret = "pending" /\ main.ret # "pending" /\ Len(calls) < MaxOps) => MainCanStart
        /\ (main.ret = "pending" /\ rd.ret # "pending" /\ Len(calls) < MaxOps) =>
               ENABLED BidirectionalStream_Read

\* C12 witness: a Write was started and completed on the main task while the
\* Read of the reading task was still suspended.
C12_Witness ==
    /\ call_kind = "kBidirectionalStream"
    /\ rd.ret = "pending"
    /\ main.op = "Write"
    /\ main.ret = "ok"
    /\ \E i \in DOMAIN trace : i > rd.at /\ trace[i].op = "Write" /\ trace[i].res = "ok"

\* C13: a client-streaming Read outside kOpen (kReadsDone or kFinished) is
\* fatal and has no effect; in kOpen, a Read that receives a message applies
\* the request hook to it and, the hook accepting, returns true with the
\* hooked message and stays kOpen; a Read at end of input returns false, runs
\* no hook and moves to kReadsDone.
C13_ReadOnlyWhenOpen ==
    [][(call_kind = "kRequestStream" /\ MainCalls("Read")) =>
         IF state # "kOpen"
         THEN /\ lifecycle' = "aborted"
              /\ main'.ret = "abort"
              /\ trace' = trace
              /\ state' = state
         ELSE /\ lifecycle' = "running"
              /\ Len(trace') > Len(trace)
              /\ SubSeq(trace', 1, Len(trace)) = trace
              /\ LET e == trace'[Len(trace) + 1]
                 IN  /\ e.sink = "raw" /\ e.op = "Read"
                     /\ e.res = "ok" =>
                          /\ Len(trace') = Len(trace) + 2
                          /\ trace'[Len(trace')].op = "ApplyRequestHook"
                          /\ trace'[Len(trace')].msg = e.msg
                          /\ state' = "kOpen"
                          /\ trace'[Len(trace')].res = "ok" =>
                               (main'.ret = "true" /\ main'.msg = Hooked(e.msg))
                     /\ e.res = "eof" =>
                          /\ Len(trace') = Len(trace) + 1
                          /\ main'.ret = "false"
                          /\ state' = "kReadsDone"
                     /\ main'.ret = "true" => e.res = "ok"
                     /\ main'.ret = "false" => e.res = "eof"]_vars

\* C13 witness: a Read returned a message, a later Read met the end of input,
\* and the Read after that was fatal.
C13_Witness ==
    /\ call_kind = "kRequestStream"
    /\ calls = <<"Read", "Read", "Read">>
    /\ state = "kReadsDone"
    /\ lifecycle = "aborted"
    /\ \E i \in DOMAIN trace : trace[i].op = "ApplyRequestHook" /\ trace[i].res = "ok"

\* The effects this step appends to trace.
Added == SubSeq(trace', Len(trace) + 1, Len(trace'))

\* The events of t that reached the given sink.
EventsOn(t, sink) == SelectSeq(t, LAMBDA e : e.sink = sink)

\* t holds exactly one event on the sink and it carries the code.
OneWithCode(t, sink, code) == EventsOn(t, sink) # <<>> /\ Len(EventsOn(t, sink)) = 1
                              /\ EventsOn(t, sink)[1].code = code

\* C14: in a client-streaming call, Finish and FinishWithError (with an error
\* status) called in kOpen or in kReadsDone are never fatal, move state_ to
\* kFinished and write exactly one log line with the status; when the method
\* returns, it has recorded exactly one statistics event and one span update
\* with that status, and it never records more than one of either.
C14_FinishFromOpenOrReadsDone ==
    [][(/\ call_kind = "kRequestStream"
        /\ state \in {"kOpen", "kReadsDone"}
        /\ \/ MainCalls("Finish")
           \/ MainCalls("FinishWithError") /\ main'.code # StatusOK) =>
         /\ lifecycle' = "running"
         /\ main'.ret # "abort"
         /\ state' = "kFinished"
         /\ SubSeq(trace', 1, Len(trace)) = trace
         /\ OneWithCode(Added, "log", main'.code)
         /\ Len(EventsOn(trace', "log")) = 1
         /\ Len(EventsOn(Added, "stats")) <= 1
         /\ Len(EventsOn(Added, "span")) <= 1
         /\ main'.ret = "ok" =>
              /\ OneWithCode(Added, "stats", main'.code)
              /\ OneWithCode(Added, "span", main'.code)]_vars

\* C14 witness: Finish returned on a call whose input had been read to its
\* end, with the log line, the statistics event and the span update in place.
C14_Witness ==
    /\ call_kind = "kRequestStream"
    /\ calls = <<"Read", "Finish">>
    /\ \E i \in DOMAIN trace : trace[i].op = "Read" /\ trace[i].res = "eof"
    /\ main.op = "Finish"
    /\ main.ret = "ok"
    /\ state = "kFinished"
    /\ Len(LogLines) = 1 /\ Len(StatsEvents) = 1 /\ Len(SpanUpdates) = 1

\* The sends of the stream-opening metadata on the raw stream.
MetadataSends == RawOps({"SendInitialMetadata"})

\* C15 as stated: once a server-streaming call has had its first Write or
\* Finish, the opening metadata has been sent exactly once.
C15_MetadataOnFirstWriteOrFinish ==
    (call_kind = "kResponseStream" /\ calls # <<>> /\ calls[1] \in {"Write", "Finish"}) =>
        Len(MetadataSends) = 1

\* C15: in a server-streaming call the opening metadata is sent at most once,
\* and it is sent exactly when the first method called is Write: that Write
\* moves kNew to kOpen and sends it before any payload; Finish, WriteAndFinish
\* and FinishWithError called first move kNew straight to kFinished and send
\* none, and no later call sends it.
C15_MetadataOnFirstWriteOnly ==
    call_kind = "kResponseStream" =>
        /\ Len(MetadataSends) <= 1
        /\ Len(MetadataSends) = 1 <=> (calls # <<>> /\ calls[1] = "Write")
        /\ state = "kNew" => Len(MetadataSends) = 0
        /\ state = "kOpen" => Len(MetadataSends) = 1
        /\ \A i, j \in DOMAIN trace :
               (trace[i].op = "SendInitialMetadata" /\ trace[j].op \in {"Write", "Finish", "WriteAndFinish"}
                /\ trace[j].sink = "raw") => i < j

\* C15 witness: three Writes and a Finish with one metadata send among them.
C15_Witness ==
    /\ call_kind = "kResponseStream"
    /\ calls = <<"Write", "Write", "Write", "Finish">>
    /\ Len(MetadataSends) = 1
    /\ Len(RawOps({"Write"})) = 3
    /\ state = "kFinished"

\* The handler called Write n times and then Finish, and nothing failed:
\* every hook accepted and every raw-stream operation completed.
WritesThenFinish(n) ==
    /\ call_kind = "kResponseStream"
    /\ Len(calls) = n + 1
    /\ \A i \in 1..n : calls[i] = "Write"
    /\ calls[n + 1] = "Finish"
    /\ \A i \in DOMAIN trace : trace[i].res = "ok"

\* C16: after n >= 1 Writes and a Finish of a server-streaming call the raw
\* stream has seen, in this order, one opening-metadata send, the n payload
\* writes carrying the handler's messages (as rewritten by the response hook)
\* in the order the handler passed them, and one finish with the OK status.
C16_WritesThenFinish ==
    \A n \in 1..(MaxOps - 1) :
        WritesThenFinish(n) =>
            LET raw == OnSink("raw")
                hooks == OnSink("hook")
            IN  /\ Len(raw) = n + 2
                /\ Len(hooks) = n
                /\ raw[1] = Ev("raw", "SendInitialMetadata", NoCode, NoMsg, "ok")
                /\ \A i \in 1..n :
                       raw[i + 1] = Ev("raw", "Write", NoCode, Hooked(hooks[i].msg), "ok")
                /\ raw[n + 2] = Ev("raw", "Finish", StatusOK, NoMsg, "ok")

\* C16 witness: three Writes of different messages, then Finish, all returned.
C16_Witness ==
    /\ WritesThenFinish(3)
    /\ main.op = "Finish" /\ main.ret = "ok"
    /\ OnSink("hook")[1].msg = "m1"
    /\ OnSink("hook")[2].msg = "m2"
    /\ OnSink("hook")[3].msg = "m1"

\* The methods called on the main task (Read of a bidirectional call runs on
\* the reading task).
MainSide == SelectSeq(calls, LAMBDA c : c # "Read")

\* What the write direction did to the raw stream: every raw-stream operation
\* but Read, and among them those that carry a payload or the final status.
WriteSideRaw == SelectSeq(trace, LAMBDA e : e.sink = "raw" /\ e.op # "Read")
TransferOps == RawOps({"Write", "Finish", "WriteAndFinish"})
ResponseHooks == SelectSeq(trace, LAMBDA e : e.op = "ApplyResponseHook")

\* On a server-streaming or bidirectional call the main task called Write
\* zero or more times and then the method last, and nothing failed on the
\* write direction.
WritesThen(last) ==
    /\ call_kind \in {"kResponseStream", "kBidirectionalStream"}
    /\ MainSide # <<>>
    /\ \A i \in 1..(Len(MainSide) - 1) : MainSide[i] = "Write"
    /\ MainSide[Len(MainSide)] = last
    /\ main.ret = "ok"
    /\ \A i \in DOMAIN trace :
           trace[i].op \notin {"Read", "ApplyRequestHook"} => trace[i].res = "ok"

Codes(t) == [i \in 1..Len(t) |-> t[i].code]

\* The payloads the raw stream was given, in order.
Delivered ==
    [i \in 1..Len(RawOps({"Write", "WriteAndFinish"})) |->
        RawOps({"Write", "WriteAndFinish"})[i].msg]

\* What the peer and the accounting sinks observe of the call.
Outcome ==
    [finished |-> IsFinished,
     delivered |-> Delivered,
     status |-> Codes(RawOps({"Finish", "WriteAndFinish"})),
     log |-> Codes(LogLines),
     stats |-> Codes(StatsEvents),
     span |-> Codes(SpanUpdates)]

\* The outcome of a successful run as a function of the messages the handler
\* passed, whichever methods carried them: each message as rewritten by the
\* response hook or, where the message type has no hooks, as it was passed.
Expected ==
    [finished |-> TRUE,
     delivered |-> IF is_protobuf_message
                   THEN [i \in 1..Len(ResponseHooks) |-> Hooked(ResponseHooks[i].msg)]
                   ELSE Delivered,
     status |-> <<StatusOK>>,
     log |-> <<StatusOK>>,
     stats |-> <<StatusOK>>,
     span |-> <<StatusOK>>]

C18_UnaryFinish ==
    [][(call_kind = "kUnaryCall" /\ ~is_finished /\ MainCalls("Finish")) =>
         /\ is_finished'
         /\ lifecycle' = "running"
         /\ trace = <<>>
         /\ trace'[1].op = "ApplyResponseHook" /\ trace'[1].msg = main'.msg
         /\ Len(EventsOn(trace', "raw")) <= 1
         /\ main'.ret = "ok" =>
              trace' = <<Ev("hook", "ApplyResponseHook", NoCode, main'.msg, "ok"),
                         Ev("log", "LogFinish", StatusOK, NoMsg, "ok"),
                         Ev("raw", "Finish", StatusOK, Hooked(main'.msg), "ok"),
                         Ev("stats", "OnExplicitFinish", StatusOK, NoMsg, "ok"),
                         Ev("span", "UpdateSpanWithStatus", StatusOK, NoMsg, "ok")>>]_vars

\* C18 witness: Finish(m2) returned on a unary call and the raw stream holds
\* the hooked m2 with the OK status.
C18_Witness ==
    /\ call_kind = "kUnaryCall"
    /\ calls = <<"Finish">>
    /\ main.ret = "ok" /\ main.msg = "m2"
    /\ is_finished
    /\ RawOps({"Finish"}) = <<Ev("raw", "Finish", StatusOK, "m2_hooked", "ok")>>
    /\ Len(StatsEvents) = 1 /\ Len(SpanUpdates) = 1

\* The log line, the statistics event and the span update for a status code.
LogOf(code) == Ev("log", "LogFinish", code, NoMsg, "ok")
StatsOf(code) == Ev("stats", "OnExplicitFinish", code, NoMsg, "ok")
SpanOf(code) == Ev("span", "UpdateSpanWithStatus", code, NoMsg, "ok")

\* This step is FinishWithError, with an error status, starting on a call
\* that is not terminal.
ErrorFinishStarts ==
    /\ ~IsFinished
    /\ MainCalls("FinishWithError")
    /\ main'.code # StatusOK

\* This step is the completion of the raw-stream finish of a bidirectional
\* FinishWithError.
ErrorFinishResumes ==
    /\ main.op = "FinishWithError"
    /\ main.ret = "pending"
    /\ main'.ret = "ok"

\* C19: in every shape FinishWithError(status) with an error status on a
\* non-terminal call makes the call terminal, writes the log line with the
\* status code and hands the status to the raw stream; when it returns it has
\* also recorded that code in the statistics and on the span; the log, the
\* statistics and the span never hold more than one event.
C19_ErrorFinishRecorded ==
    /\ [](Len(LogLines) <= 1 /\ Len(StatsEvents) <= 1 /\ Len(SpanUpdates) <= 1)
    /\ [][ErrorFinishStarts =>
            /\ IsFinished'
            /\ lifecycle' = "running"
            /\ Len(Added) >= 2
            /\ Added[1] = LogOf(main'.code)
            /\ Added[2].sink = "raw"
            /\ Added[2].op \in {"Finish", "FinishWithError"}
            /\ Added[2].code = main'.code
            /\ main'.ret = "pending" => Len(Added) = 2
            /\ main'.ret = "ok" =>
                 /\ Added[2].res = "ok"
                 /\ SubSeq(Added, 3, Len(Added)) = <<StatsOf(main'.code), SpanOf(main'.code)>>]_vars
    /\ [][ErrorFinishResumes =>
            /\ IsFinished'
            /\ trace'[main.at].res = "ok"
            /\ trace'[main.at].code = main.code
            /\ Added = <<StatsOf(main.code), SpanOf(main.code)>>]_vars

\* C19 witness: FinishWithError(NOT_FOUND) returned on a bidirectional call
\* after a Write; log, raw stream, statistics and span all hold NOT_FOUND.
C19_Witness ==
    /\ call_kind = "kBidirectionalStream"
    /\ MainSide = <<"Write", "FinishWithError">>
    /\ main.ret = "ok"
    /\ is_finished
    /\ Codes(RawOps(FinishFamily)) = <<"NOT_FOUND">>
    /\ RawOps(FinishFamily)[1].res = "ok"
    /\ Codes(LogLines) = <<"NOT_FOUND">>
    /\ Codes(StatsEvents) = <<"NOT_FOUND">>
    /\ Codes(SpanUpdates) = <<"NOT_FOUND">>

\* C20: in every shape a FinishWithError given the OK status is stopped by its
\* precondition check (the call is fatal) and, when it is the only call made,
\* no OK status has reached the log, the raw stream, the statistics or the span.
C20_SuccessStatusRejected ==
    (main.op = "FinishWithError" /\ main.code = StatusOK /\ main.ret # "pending") =>
        /\ main.ret = "abort"
        /\ MainSide = <<"FinishWithError">> =>
               \A i \in DOMAIN trace : trace[i].code # StatusOK

\* C21: in server-streaming and bidirectional calls a Write on a call that is
\* not finished is never fatal, a Write on a finished call is fatal and has no
\* effect, and the raw stream never holds a Write issued after a finish or a
\* write-and-finish.
C21_WriteUnlessFinished ==
    /\ [][(call_kind \in {"kResponseStream", "kBidirectionalStream"} /\ MainCalls("Write")) =>
            IF IsFinished
            THEN /\ lifecycle' = "aborted"
                 /\ main'.ret = "abort"
                 /\ trace' = trace
            ELSE /\ lifecycle' = "running"
                 /\ main'.ret # "abort"]_vars
    /\ [](\A i, j \in DOMAIN trace :
            (/\ trace[i].sink = "raw" /\ trace[i].op \in FinishFamily
             /\ trace[j].sink = "raw" /\ trace[j].op = "Write") => j < i)

\* C21 witness: a bidirectional call finished by a WriteAndFinish that
\* returned, and the Write called after it was fatal.
C21_Witness ==
    /\ call_kind = "kBidirectionalStream"
    /\ MainSide = <<"Write", "WriteAndFinish", "Write">>
    /\ lifecycle = "aborted"
    /\ main.op = "Write" /\ main.ret = "abort"
    /\ Len(RawOps({"WriteAndFinish"})) = 1
    /\ RawOps({"WriteAndFinish"})[1].res = "ok"
    /\ Len(RawOps({"Write"})) = 1

\* This step is the handler calling Read (on the main task of a
\* client-streaming call, on the reading task of a bidirectional call).
ReadCalled ==
    /\ Len(calls') = Len(calls) + 1
    /\ calls'[Len(calls')] = "Read"

\* C22: in client-streaming and bidirectional calls a Read called on a call
\* in its terminal phase is fatal and issues nothing on the raw stream,
\* whether or not the end of input has been seen.
C22_NoReadAfterFinish ==
    [][(/\ call_kind \in {"kRequestStream", "kBidirectionalStream"}
        /\ IsFinished
        /\ ReadCalled) =>
         /\ lifecycle' = "aborted"
         /\ trace' = trace]_vars

\* Places in trace of the raw-stream operations that carry a response, of
\* the raw-stream reads that obtained a request, and of the hook calls.
PayloadAt ==
    {i \in DOMAIN trace : /\ trace[i].sink = "raw"
                          /\ trace[i].op \in {"Write", "Finish", "WriteAndFinish"}
                          /\ trace[i].msg # NoMsg}
ObtainedAt ==
    {i \in DOMAIN trace : trace[i].sink = "raw" /\ trace[i].op = "Read" /\ trace[i].res = "ok"}
ResponseHookAt == {i \in DOMAIN trace : trace[i].op = "ApplyResponseHook"}
RequestHookAt == {i \in DOMAIN trace : trace[i].op = "ApplyRequestHook"}

\* Every response given to the raw stream is the one its response hook
\* accepted and rewrote, the hook call coming before the operation with no
\* other response in between; every accepted response went on to the raw
\* stream; no response met the hook twice.
ResponsesHooked ==
    /\ \A i \in PayloadAt :
           \E j \in ResponseHookAt :
               /\ j < i
               /\ trace[j].res = "ok"
               /\ trace[i].msg = Hooked(trace[j].msg)
               /\ \A k \in (j + 1)..(i - 1) : k \notin PayloadAt \cup ResponseHookAt
    /\ Cardinality(PayloadAt) = Cardinality({j \in ResponseHookAt : trace[j].res = "ok"})

\* Every request obtained from the raw stream met the request hook once,
\* after it was obtained; nothing else did (no hook at the end of input); and
\* a Read that returned true hands out the request its hook accepted.
RequestsHooked ==
    /\ Cardinality(RequestHookAt) = Cardinality(ObtainedAt)
    /\ \A j \in RequestHookAt : \E i \in ObtainedAt : i < j /\ trace[i].msg = trace[j].msg
    /\ \A task \in {main, rd} :
           (task.op = "Read" /\ task.ret = "true") =>
               /\ RequestHookAt # {}
               /\ LET j == CHOOSE x \in RequestHookAt : \A y \in RequestHookAt : y <= x
                  IN  trace[j].res = "ok" /\ task.msg = Hooked(trace[j].msg)

\* C23 as stated: in every call every request and every response crosses its
\* hook exactly once and before it is forwarded.
C23_EveryMessageHooked == ResponsesHooked /\ RequestsHooked

\* C23: in every call whose messages are protobuf messages every request and
\* every response crosses its hook exactly once and before it is forwarded; a
\* bidirectional call whose message type is not a protobuf message calls no
\* hook at all.
C23_ProtobufMessagesHooked ==
    [](IF is_protobuf_message
       THEN ResponsesHooked /\ RequestsHooked
       ELSE /\ call_kind = "kBidirectionalStream"
            /\ ResponseHookAt = {} /\ RequestHookAt = {}
            /\ (rd.op = "Read" /\ rd.ret = "true") => rd.msg \in Msgs)

\* C23 witness: a bidirectional call of protobuf messages read a request and
\* wrote and finished with a response, each through its hook.
C23_Witness ==
    /\ call_kind = "kBidirectionalStream"
    /\ is_protobuf_message
    /\ rd.op = "Read" /\ rd.ret = "true"
    /\ main.op = "WriteAndFinish" /\ main.ret = "ok"
    /\ Cardinality(PayloadAt) = 1
    /\ Cardinality(RequestHookAt) = 1

\* This step is the handler calling IsFinished() or an accessor.
QueryStep ==
    /\ main' # main
    /\ main'.op \in Accessors \cup {"IsFinished"}

\* C24: while the call object is alive and the handler task is not suspended,
\* IsFinished() and the accessors can be called in every phase; such a call
\* is never fatal and leaves the phase, the raw stream, the log, statistics
\* and span records, the storage context and the other task unchanged; and
\* IsFinished() returns true exactly when the call is in its terminal phase.
C24_QueriesArePure ==
    /\ []((lifecycle = "running" /\ main.ret # "pending") =>
            (ENABLED CallAnyBase_IsFinished /\ ENABLED CallAnyBase_Accessor))
    /\ [][QueryStep =>
            /\ UNCHANGED <<is_finished, state, are_reads_done, trace, rd, lifecycle,
                           calls, storage_context>>
            /\ lifecycle' = "running"
            /\ main'.ret # "abort"
            /\ main'.op = "IsFinished" => (main'.ret = "true" <=> Terminal)
            /\ main'.op \in Accessors => main'.ret = Returned(main'.op)]_vars

\* C24 witness: IsFinished() returned true on a client-streaming call that
\* had read its input to the end and finished.
C24_Witness ==
    /\ call_kind = "kRequestStream"
    /\ calls = <<"Read", "Finish">>
    /\ state = "kFinished"
    /\ Len(StatsEvents) = 1
    /\ main.op = "IsFinished"
    /\ main.ret = "true"

\* C25: once the call is in its terminal phase no step changes the storage
\* context.
C25_StorageFrozenOnceTerminal ==
    [][Terminal => storage_context' = storage_context]_vars

\* C26: at scope exit, a call whose log line carries the OK status has had a
\* finish or write-and-finish with the OK status completed on the raw stream
\* and has OK recorded in the statistics and on the span.
C26_RecordsAgree ==
    (lifecycle = "destroyed" /\ \E i \in DOMAIN LogLines : LogLines[i].code = StatusOK) =>
        /\ \E i \in DOMAIN trace :
               /\ trace[i].sink = "raw"
               /\ trace[i].op \in FinishFamily
               /\ trace[i].code = StatusOK
               /\ trace[i].res = "ok"
        /\ \E i \in DOMAIN StatsEvents : StatsEvents[i].code = StatusOK
        /\ \E i \in DOMAIN SpanUpdates : SpanUpdates[i].code = StatusOK

\* A finish, a write-and-finish or an error finish has been issued on the raw
\* stream, and one of them was interrupted.
FinishIssued == \E i \in DOMAIN trace : trace[i].sink = "raw" /\ trace[i].op \in FinishFamily
FinishInterrupted ==
    \E i \in DOMAIN trace :
        /\ trace[i].sink = "raw"
        /\ trace[i].op \in FinishFamily
        /\ trace[i].res = "interrupted"

\* C27: the call is in its terminal phase from the moment a finish-family
\* method issues its raw-stream operation, whether that operation is still
\* pending, completes or is interrupted; after an interrupted one the scope
\* exit cancels nothing and leaves the single log line alone, and a later
\* FinishWithError (with an error status) returns without any effect.
C27_TerminalBeforeEffects ==
    /\ [](FinishIssued => IsFinished)
    /\ []((FinishInterrupted /\ lifecycle = "destroyed") =>
            (RawOps(CancelOps) = <<>> /\ Len(LogLines) = 1))
    /\ [][(FinishInterrupted /\ MainCalls("FinishWithError") /\ main'.code # StatusOK) =>
            /\ main'.ret = "ok"
            /\ lifecycle' = "running"
            /\ trace' = trace
            /\ Phase' = Phase]_vars

\* C27 witness: the raw-stream finish of a bidirectional Finish was
\* interrupted, a FinishWithError followed, and the scope was left.
C27_Witness ==
    /\ call_kind = "kBidirectionalStream"
    /\ MainSide = <<"Finish", "FinishWithError">>
    /\ FinishInterrupted
    /\ main.op = "FinishWithError" /\ main.code = "NOT_FOUND" /\ main.ret = "ok"
    /\ lifecycle = "destroyed"
    /\ is_finished

\* A Write of the raw stream was interrupted.
WriteInterrupted ==
    \E i \in DOMAIN trace :
        trace[i].sink = "raw" /\ trace[i].op = "Write" /\ trace[i].res = "interrupted"

\* C28: in a bidirectional call, the step in which a Write fails with an
\* interruption sets is_finished_, makes Write throw and adds nothing to the
\* log, the statistics, the span or the raw stream; from then on IsFinished()
\* is true and Write, Finish and WriteAndFinish are fatal and without effect.
C28_InterruptedWriteFinishes ==
    /\ []((call_kind = "kBidirectionalStream" /\ WriteInterrupted) => IsFinished)
    /\ [][(/\ call_kind = "kBidirectionalStream"
           /\ main.op = "Write" /\ main.ret = "pending"
           /\ main'.ret = "interrupted") =>
            /\ is_finished'
            /\ Len(trace') = Len(trace)
            /\ \A i \in DOMAIN trace : i # main.at => trace'[i] = trace[i]
            /\ trace'[main.at] = [trace[main.at] EXCEPT !.res = "interrupted"]]_vars
    /\ [][(/\ call_kind = "kBidirectionalStream"
           /\ WriteInterrupted
           /\ \E op \in {"Write", "Finish", "WriteAndFinish"} : MainCalls(op)) =>
            /\ lifecycle' = "aborted"
            /\ main'.ret = "abort"
            /\ trace' = trace]_vars

\* C28 witness: a Write was interrupted, then Finish was called and was fatal;
\* the call has no log line, statistics event or span update.
C28_Witness ==
    /\ call_kind = "kBidirectionalStream"
    /\ MainSide = <<"Write", "Finish">>
    /\ WriteInterrupted
    /\ is_finished
    /\ main.op = "Finish" /\ main.ret = "abort"
    /\ lifecycle = "aborted"
    /\ LogLines = <<>> /\ StatsEvents = <<>> /\ SpanUpdates = <<>>

\* The events of trace outside the raw-stream reads and the request hooks:
\* the log, the statistics, the span and the write direction of the stream.
WriteSideEvents(t) ==
    SelectSeq(t, LAMBDA e : ~(e.op \in {"Read", "ApplyRequestHook"}))

\* C29: in a bidirectional call every step of the reading task leaves
\* is_finished_ alone and adds no log line, statistics event, span update,
\* finish or cancel; every step of the main task leaves are_reads_done_
\* alone; hence is_finished_ changes only in steps of the main task,
\* are_reads_done_ only in steps of the reading task, and no step writes both.
C29_DisjointWriters ==
    [][call_kind = "kBidirectionalStream" =>
         /\ rd' # rd =>
              /\ is_finished' = is_finished
              /\ main' = main
              /\ WriteSideEvents(trace') = WriteSideEvents(trace)
         /\ main' # main =>
              /\ are_reads_done' = are_reads_done
              /\ rd' = rd
         /\ is_finished' # is_finished => (main' # main /\ main'.op # "Read")
         /\ are_reads_done' # are_reads_done => (rd' # rd /\ rd'.op = "Read")
         /\ ~(is_finished' # is_finished /\ are_reads_done' # are_reads_done)]_vars

\* C29 witness: the reading task saw the end of input while the main task
\* was suspended in Finish; both flags are set, each by its own task.
C29_Witness ==
    /\ call_kind = "kBidirectionalStream"
    /\ are_reads_done /\ is_finished
    /\ rd.op = "Read" /\ rd.ret = "false"
    /\ main.op = "Finish" /\ main.ret = "pending"
    /\ calls = <<"Read", "Finish">>

\* Places in trace of the terminating raw-stream operations (finish,
\* write-and-finish, cancel) and of the payload writes and metadata sends.
TerminatingAt ==
    {i \in DOMAIN trace : trace[i].sink = "raw" /\ trace[i].op \in FinishFamily \cup CancelOps}
SendingAt ==
    {i \in DOMAIN trace : trace[i].sink = "raw" /\ trace[i].op \in {"Write", "SendInitialMetadata"}}

\* C30: in every shape the raw stream is given at most one terminating
\* operation, and every payload write and metadata send comes before it.
C30_OneTerminatingOperation ==
    /\ Cardinality(TerminatingAt) <= 1
    /\ \A i \in TerminatingAt : \A j \in SendingAt : j < i

\* C30 witness: a server-streaming call wrote, finished, was given a
\* FinishWithError and left its scope, with one terminating operation.
C30_Witness ==
    /\ call_kind = "kResponseStream"
    /\ calls = <<"Write", "Finish", "FinishWithError">>
    /\ lifecycle = "destroyed"
    /\ Cardinality(TerminatingAt) = 1
    /\ Cardinality(SendingAt) = 2

\* Places in trace of the raw-stream operations of the finish methods, and
\* of the statistics events and span updates.
RawFinishAt == {i \in DOMAIN trace : trace[i].sink = "raw" /\ trace[i].op \in FinishFamily}
AccountedAt == {i \in DOMAIN trace : trace[i].sink \in {"stats", "span"}}

\* C31: in every shape, a raw-stream finish is issued only after the log
\* line with its status code, and with no statistics event or span update
\* before it; a statistics event or a span update is recorded only after a
\* raw-stream finish with the same status code that returned without failure,
\* the statistics event first and the span update right after it.
C31_FinishStepOrder ==
    [](/\ \A i \in RawFinishAt :
              /\ \E j \in 1..(i - 1) : trace[j] = LogOf(trace[i].code)
              /\ \A j \in AccountedAt : i < j
       /\ \A i \in AccountedAt :
              \E j \in RawFinishAt :
                  /\ j < i
                  /\ trace[j].res = "ok"
                  /\ trace[j].code = trace[i].code
       /\ \A i \in DOMAIN trace :
              trace[i].sink = "stats" =>
                  /\ i < Len(trace)
                  /\ trace[i + 1] = SpanOf(trace[i].code))

\* C31 witness: a bidirectional WriteAndFinish of a protobuf message has
\* returned: log line, response hook, raw-stream operation, statistics, span.
C31_Witness ==
    /\ call_kind = "kBidirectionalStream"
    /\ is_protobuf_message
    /\ main.op = "WriteAndFinish" /\ main.ret = "ok"
    /\ Len(trace) = 5
    /\ trace[1] = LogOf(StatusOK)
    /\ trace[2].op = "ApplyResponseHook"
    /\ trace[3].sink = "raw" /\ trace[3].op = "WriteAndFinish" /\ trace[3].res = "ok"
    /\ trace[4] = StatsOf(StatusOK)
    /\ trace[5] = SpanOf(StatusOK)

\* A bidirectional call whose input has ended and which is not finished.
HalfClosed == call_kind = "kBidirectionalStream" /\ are_reads_done /\ ~is_finished

\* This step is a bidirectional Read returning false: the end of input.
ReadReturnsFalse ==
    /\ call_kind = "kBidirectionalStream"
    /\ rd.ret = "pending"
    /\ rd'.ret = "false"

\* C32, the Read that meets the end of input: it sets are_reads_done_ and
\* leaves is_finished_ as it was, so an unfinished call stays unfinished.
C32_ReadsDoneOnly ==
    [][ReadReturnsFalse =>
         /\ are_reads_done'
         /\ is_finished' = is_finished
         /\ lifecycle' = "running"]_vars

\* C32, the write direction after the end of input: on a half-closed call
\* Write, Finish, WriteAndFinish and FinishWithError (with an error status)
\* are not fatal and start their work.
C32_WriteSideStaysLegal ==
    [][(/\ HalfClosed
        /\ \E op \in {"Write", "Finish", "WriteAndFinish", "FinishWithError"} : MainCalls(op)
        /\ ~(main'.op = "FinishWithError" /\ main'.code = StatusOK)) =>
         /\ lifecycle' = "running"
         /\ main'.ret # "abort"
         /\ trace' # trace]_vars

\* C32, the read direction after the end of input: a further Read is fatal
\* and reaches neither the raw stream nor the request hook.
C32_FurtherReadFatal ==
    [][(call_kind = "kBidirectionalStream" /\ are_reads_done /\ ReadCalled) =>
         /\ lifecycle' = "aborted"
         /\ rd'.ret = "abort"
         /\ trace' = trace]_vars

\* C32, scope exit: a bidirectional call that saw the end of input and whose
\* handler called no finish method has been cancelled and logged with the
\* unknown-error status once its scope is left.
C32_ScopeExitStillCancels ==
    (/\ call_kind = "kBidirectionalStream"
     /\ are_reads_done
     /\ NeverFinished
     /\ lifecycle = "destroyed") =>
        EndsCancelled(trace)

\* C32: in a bidirectional call the end of input closes the read direction
\* only: the Read that returns false sets are_reads_done_ and not
\* is_finished_; Write, Finish, WriteAndFinish and FinishWithError stay
\* legal; a further Read is fatal; and scope exit without a finish call
\* cancels the raw stream and logs the unknown-error status.
C32_HalfClose ==
    /\ C32_ReadsDoneOnly
    /\ C32_WriteSideStaysLegal
    /\ C32_FurtherReadFatal
    /\ []C32_ScopeExitStillCancels
====
